---- MODULE Spec2Model ----
(***************************************************************************)
(* Model of Applify's job-search core: the Adzuna request builder and      *)
(* search client (src/adzuna_api.py) and the Streamlit session that calls  *)
(* it (src/app.py).                                                        *)
(*                                                                         *)
(* Python values are records [t, i, s]: t is the dynamic type ("none",     *)
(* "int", "str"), i the integer, s the text as a sequence of one-character *)
(* strings, so that strip(), lower(), int() and str() are computed.        *)
(***************************************************************************)
EXTENDS Integers, Sequences, FiniteSets, TLC

VARIABLES
    secrets,       \* st.secrets / os.environ: name -> Python value
    args,          \* the arguments the API functions are called with
    net,           \* what the network does to the next HTTP GET
    built,         \* outcome of the last build_request call
    fetched,       \* outcome of the last direct fetch_jobs call
    sent,          \* every HTTP GET issued so far, in order
    calls,         \* number of fetch_jobs bodies entered so far
    widgets,       \* the sidebar's widget values
    filters,       \* st.session_state.filters
    jobs,          \* st.session_state.jobs
    current_page,  \* st.session_state.current_page
    desc_open,     \* st.session_state.desc_open (set of open keys)
    clicked,       \* the button the latest script run handled, or "none"
    ui_exc,        \* exception that reached the Streamlit script, or "none"
    text,          \* split_description's text argument
    limit,         \* split_description's limit argument
    split,         \* what split_description(text, limit) returned
    resplit,       \* what split_description(split's preview, limit) returned
    job,           \* job_remote_label's job argument
    label          \* what job_remote_label(job) returned

vars == <<secrets, args, net, built, fetched, sent, calls,
          widgets, filters, jobs, current_page, desc_open, clicked, ui_exc,
          text, limit, split, resplit, job, label>>

apiVars == <<secrets, args, net, built, fetched, sent, calls>>
uiVars == <<widgets, filters, jobs, current_page, desc_open, clicked, ui_exc>>
textVars == <<text, limit, split, resplit, job, label>>

----------------------------------------------------------------------------
(* Python values *)

None_ == [t |-> "none", i |-> 0, s |-> <<>>]
PyInt(n) == [t |-> "int", i |-> n, s |-> <<>>]
PyStr(cs) == [t |-> "str", i |-> 0, s |-> cs]

\* bool(v) for None, int and str
Truthy(v) ==
    CASE v.t = "none" -> FALSE
      [] v.t = "int" -> v.i # 0
      [] v.t = "str" -> v.s # <<>>

\* `v or d`
Or(v, d) == IF Truthy(v) THEN v ELSE d

Whitespace == {" ", "\t", "\n"}

\* str.lstrip() and str.rstrip() on the characters
LStrip(cs) ==
    LET solid == {k \in 1..Len(cs) : cs[k] \notin Whitespace}
    IN  IF solid = {} THEN <<>>
        ELSE SubSeq(cs, CHOOSE k \in solid : \A j \in solid : k <= j, Len(cs))

RStrip(cs) ==
    LET solid == {k \in 1..Len(cs) : cs[k] \notin Whitespace}
    IN  IF solid = {} THEN <<>>
        ELSE SubSeq(cs, 1, CHOOSE k \in solid : \A j \in solid : j <= k)

\* str.strip()
StrStrip(v) == PyStr(RStrip(LStrip(v.s)))

UpperChars == <<"A","B","C","D","E","F","G","H","I","J","K","L","M",
                "N","O","P","Q","R","S","T","U","V","W","X","Y","Z">>
LowerChars == <<"a","b","c","d","e","f","g","h","i","j","k","l","m",
                "n","o","p","q","r","s","t","u","v","w","x","y","z">>

LowerChar(c) ==
    IF \E k \in 1..Len(UpperChars) : UpperChars[k] = c
    THEN LowerChars[CHOOSE k \in 1..Len(UpperChars) : UpperChars[k] = c]
    ELSE c

\* str.lower()
StrLower(v) == PyStr([k \in 1..Len(v.s) |-> LowerChar(v.s[k])])

Digits == <<"0","1","2","3","4","5","6","7","8","9">>
IsDigit(c) == \E k \in 1..10 : Digits[k] = c
DigitVal(c) == (CHOOSE k \in 1..10 : Digits[k] = c) - 1

RECURSIVE DigitsVal(_)
DigitsVal(cs) ==
    IF cs = <<>> THEN 0
    ELSE 10 * DigitsVal(SubSeq(cs, 1, Len(cs) - 1)) + DigitVal(cs[Len(cs)])

RECURSIVE NatStr(_)
NatStr(n) ==
    IF n < 10 THEN <<Digits[n + 1]>>
    ELSE NatStr(n \div 10) \o <<Digits[(n % 10) + 1]>>

\* str(n), as str.format() renders an int
IntStr(n) == IF n < 0 THEN <<"-">> \o NatStr(0 - n) ELSE NatStr(n)

\* int(v): [ok, i, exc].  An int is itself; a str is stripped, may carry one
\* sign, and must then be decimal digits, else ValueError; None is a TypeError.
IntOf(v) ==
    CASE v.t = "int" -> [ok |-> TRUE, i |-> v.i, exc |-> "none"]
      [] v.t = "none" -> [ok |-> FALSE, i |-> 0, exc |-> "TypeError"]
      [] v.t = "str" ->
            LET body == RStrip(LStrip(v.s))
                signed == body # <<>> /\ Head(body) \in {"+", "-"}
                ds == IF signed THEN Tail(body) ELSE body
                neg == signed /\ Head(body) = "-"
            IN  IF ds # <<>> /\ \A k \in 1..Len(ds) : IsDigit(ds[k])
                THEN [ok |-> TRUE,
                      i |-> IF neg THEN 0 - DigitsVal(ds) ELSE DigitsVal(ds),
                      exc |-> "none"]
                ELSE [ok |-> FALSE, i |-> 0, exc |-> "ValueError"]

Min(a, b) == IF a < b THEN a ELSE b
Max(a, b) == IF a > b THEN a ELSE b

----------------------------------------------------------------------------
(* src/adzuna_api.py *)

BASE_URL_TMPL == "https://api.adzuna.com/v1/api/jobs/{country}/search/{page}"

PageLo == 1
PageHi == 100
ResultsLo == 1
ResultsHi == 50
DefaultPage == 1
DefaultResults == 10
GetTimeout == 20
StatusOk == 200

DefaultCountry == PyStr(<<"u", "s">>)
Relevance == PyStr(<<"r","e","l","e","v","a","n","c","e">>)
Date == PyStr(<<"d","a","t","e">>)
EmptyStr == PyStr(<<>>)

\* _get_secret_now(name): the secret as the store holds it at call time
GetSecretNow(sec, name) == sec[name]

\* _clamp with the upper bound left out
ClampNoUpper(n, lo, hi) == Max(lo, n)

\* _clamp(n, lo, hi)
Clamp(n, lo, hi) == Max(lo, Min(hi, n))

\* BASE_URL_TMPL.format(country=country, page=page): the template and the text
\* that fills each of its two fields
FormatUrl(country, page) ==
    [tmpl |-> BASE_URL_TMPL, country |-> country.s, page |-> IntStr(page)]

NoUrl == [tmpl |-> "", country |-> <<>>, page |-> <<>>]
EmptyDict == [k \in {} |-> None_]

\* params[k] = v
Put(d, k, v) == [x \in (DOMAIN d) \cup {k} |-> IF x = k THEN v ELSE d[x]]

\* v in (None, "", 0)
IsEmptyValue(v) ==
    \/ v.t = "none"
    \/ v.t = "str" /\ v.s = <<>>
    \/ v.t = "int" /\ v.i = 0

\* {k: v for k, v in params.items() if v not in (None, "", 0)}
DropEmpties(d) == [x \in {k \in DOMAIN d : ~IsEmptyValue(d[k])} |-> d[x]]

\* the optional-filter test written as `if v and v > 0`
PutIntIfPositive(d, k, v) ==
    IF Truthy(v) /\ v.i > 0 THEN Put(d, k, PyInt(IntOf(v).i)) ELSE d

\* if v: params[k] = int(v)       (v is an int or None here)
PutIntIfTruthy(d, k, v) == IF Truthy(v) THEN Put(d, k, PyInt(IntOf(v).i)) ELSE d

\* if v: params[k] = v
PutIfTruthy(d, k, v) == IF Truthy(v) THEN Put(d, k, v) ELSE d

\* the sort_by entry written as `sort_by or "relevance"`
SortByOrRelevance(v) == Or(v, Relevance)

\* sort_by if sort_by in ("relevance", "date") else "relevance"
SortByOrDefault(v) == IF v = Relevance \/ v = Date THEN v ELSE Relevance

Raise(exc) == [kind |-> "raise", exc |-> exc, url |-> NoUrl, params |-> EmptyDict]

\* build_request, lines 119-120, with .lower() left out
BuildRequestUrlAsGiven(a, page) == FormatUrl(Or(a.country, DefaultCountry), page)

\* build_request, lines 119-120: country and url
BuildRequestUrl(a, page) ==
    FormatUrl(StrLower(Or(a.country, DefaultCountry)), page)

\* build_request, lines 121-133: params
BuildRequestParams(a, sec, results_limit) ==
    DropEmpties(
        PutIntIfTruthy(PutIfTruthy(PutIntIfTruthy(PutIntIfTruthy(
            [app_id |-> GetSecretNow(sec, "ADZUNA_APP_ID"),
             app_key |-> GetSecretNow(sec, "ADZUNA_APP_KEY"),
             results_per_page |-> PyInt(results_limit),
             what |-> Or(StrStrip(Or(a.query, EmptyStr)), None_),
             where |-> Or(StrStrip(Or(a.location, EmptyStr)), None_),
             sort_by |-> SortByOrDefault(a.sort_by)],
            "salary_min", a.salary_min),
            "salary_max", a.salary_max),
            "category", a.category),
            "distance", a.distance))

\* build_request(...): [kind, exc, url, params].  There is no credentials
\* check and no try: int() of a non-numeric str raises ValueError to the caller.
BuildRequest(a, sec) ==
    LET p == IntOf(Or(a.page, PyInt(DefaultPage)))
        r == IntOf(Or(a.results_limit, PyInt(DefaultResults)))
    IN  IF ~p.ok THEN Raise(p.exc)
        ELSE IF ~r.ok THEN Raise(r.exc)
        ELSE [kind |-> "return", exc |-> "none",
              url |-> BuildRequestUrl(a, Clamp(p.i, PageLo, PageHi)),
              params |-> BuildRequestParams(a, sec,
                                            Clamp(r.i, ResultsLo, ResultsHi))]

----------------------------------------------------------------------------
(* fetch_jobs *)

\* JSON values as json() decodes them: [jt, n, items]
JNull == [jt |-> "null", n |-> 0, items |-> <<>>]
JNum(n) == [jt |-> "number", n |-> n, items |-> <<>>]
JStr(cs) == [jt |-> "string", n |-> 0, items |-> cs]
JArr(items) == [jt |-> "array", n |-> 0, items |-> items]
EmptyList == JArr(<<>>)

\* bool(v) of a decoded JSON value
JTruthy(v) ==
    CASE v.jt = "null" -> FALSE
      [] v.jt = "number" -> v.n # 0
      [] OTHER -> v.items # <<>>

\* Subclasses of requests.RequestException among the exceptions raised here:
\* Timeout and ConnectionError by requests.get, HTTPError by raise_for_status,
\* JSONDecodeError by Response.json().
RequestExceptions == {"Timeout", "ConnectionError", "HTTPError", "JSONDecodeError"}

\* Response.raise_for_status(): raises HTTPError for 400 <= status < 600
RaisesForStatus(status) == 400 <= status /\ status < 600

\* fetch_jobs, lines 56-58: country and url
FetchJobsUrl(a, page) ==
    FormatUrl(StrLower(Or(a.country, DefaultCountry)), page)

\* fetch_jobs, lines 59-79: params
FetchJobsParams(a, sec, results_limit) ==
    DropEmpties(
        PutIntIfTruthy(PutIfTruthy(PutIntIfTruthy(PutIntIfTruthy(
            [app_id |-> GetSecretNow(sec, "ADZUNA_APP_ID"),
             app_key |-> GetSecretNow(sec, "ADZUNA_APP_KEY"),
             results_per_page |-> PyInt(results_limit),
             what |-> Or(StrStrip(Or(a.query, EmptyStr)), None_),
             where |-> Or(StrStrip(Or(a.location, EmptyStr)), None_),
             sort_by |-> SortByOrDefault(a.sort_by)],
            "salary_min", a.salary_min),
            "salary_max", a.salary_max),
            "category", a.category),
            "distance", a.distance))

\* fetch_jobs, lines 81 and 84: the GET as issued
Request(url, params) ==
    [url |-> url, params |-> params,
     headers |-> [User_Agent |-> "Applify/1.0"], timeout |-> GetTimeout]

Returns(v) == [kind |-> "return", exc |-> "none", val |-> v]
Raises(exc) == [kind |-> "raise", exc |-> exc, val |-> JNull]

\* js.get("results", []) or []
ResultsOf(body) ==
    IF body.has_results /\ JTruthy(body.results) THEN body.results ELSE EmptyList

\* r.json(); js.get("results", []) or []   (lines 92-93)
DecodeAndExtract(body) ==
    IF body.kind = "text" THEN Raises("JSONDecodeError")
    ELSE IF body.top # "object" THEN Raises("AttributeError")
    ELSE Returns(ResultsOf(body))

\* The body of the try block, lines 84-93, given what the network does
TryBody(n) ==
    IF n.fault # "none" THEN Raises(n.fault)
    ELSE IF n.status # StatusOk /\ RaisesForStatus(n.status) THEN Raises("HTTPError")
    ELSE DecodeAndExtract(n.body)

\* the try block with no except clause
ExceptNothing(o) == o

\* except requests.RequestException: return []   (lines 94-96)
ExceptRequestException(o) ==
    IF o.kind = "raise" /\ o.exc \in RequestExceptions THEN Returns(EmptyList) ELSE o

\* fetch_jobs with the credentials check left out
CredentialsMissingNever(app_id, app_key) == FALSE

\* not app_id or not app_key   (line 49)
CredentialsMissing(app_id, app_key) == ~Truthy(app_id) \/ ~Truthy(app_key)

\* a try block that sends the request again when the first attempt failed
GetsWithRetry(req, n) ==
    IF n.fault # "none" \/ n.status # StatusOk THEN <<req, req>> ELSE <<req>>

\* the GETs of the try block: one requests.get, whatever the answer (line 84)
Gets(req, n) == <<req>>

\* fetch_jobs(...): [out, reqs]: the outcome [kind, exc, val] and the GETs issued
FetchJobsCall(a, sec, n) ==
    LET app_id == GetSecretNow(sec, "ADZUNA_APP_ID")
        app_key == GetSecretNow(sec, "ADZUNA_APP_KEY")
        p == IntOf(Or(a.page, PyInt(DefaultPage)))
        r == IntOf(Or(a.results_limit, PyInt(DefaultResults)))
    IN  IF CredentialsMissing(app_id, app_key)
        THEN [out |-> Returns(EmptyList), reqs |-> <<>>]
        ELSE IF ~p.ok THEN [out |-> Raises(p.exc), reqs |-> <<>>]
        ELSE IF ~r.ok THEN [out |-> Raises(r.exc), reqs |-> <<>>]
        ELSE [out |-> ExceptRequestException(TryBody(n)),
              reqs |-> Gets(Request(FetchJobsUrl(a, Clamp(p.i, PageLo, PageHi)),
                                    FetchJobsParams(a, sec,
                                        Clamp(r.i, ResultsLo, ResultsHi))), n)]

----------------------------------------------------------------------------
(* src/app.py: session state, sidebar and pagination *)

\* The keyword names fetch_jobs declares (adzuna_api.py, lines 32-41)
FetchJobsSignature ==
    {"query", "location", "results_limit", "page", "country", "sort_by",
     "salary_min", "salary_max", "category", "distance"}

\* The keyword names _fetch_with_page passes (app.py, lines 246-256)
FetchWithPageKwargs ==
    {"query", "location", "results_limit", "page", "country", "sort_by",
     "salary_min", "salary_max", "category", "remote", "distance"}

\* country_map (lines 268-274)
CountryMap ==
    [United_States |-> PyStr(<<"u","s">>), United_Kingdom |-> PyStr(<<"g","b">>),
     Canada |-> PyStr(<<"c","a">>), Australia |-> PyStr(<<"a","u">>),
     India |-> PyStr(<<"i","n">>)]

\* v if v and v > 0 else None
PositiveOrNone(v) == IF Truthy(v) /\ v.i > 0 THEN v ELSE None_

\* The Search Jobs handler's st.session_state.filters (lines 296-316)
FiltersFromWidgets(w) ==
    [query |-> w.query,
     location |-> w.location,
     results_per_page |-> w.results_per_page,
     country |-> CountryMap[w.country_name],
     sort_by |-> w.sort_by,
     salary_min |-> PositiveOrNone(w.salary_min),
     salary_max |-> PositiveOrNone(w.salary_max),
     category |-> Or(w.category, None_),
     remote_param |-> CASE w.remote_filter = "Remote only" -> "True"
                        [] w.remote_filter = "On-site only" -> "False"
                        [] OTHER -> "None",
     distance |-> PositiveOrNone(w.distance),
     country_name |-> w.country_name,
     remote_filter |-> w.remote_filter,
     experience_level |-> w.experience_level]

\* st.session_state.filters = None
NoFilters == [stored |-> FALSE]

\* The arguments _fetch_with_page binds from the stored filters (lines 246-256)
ArgsFromFilters(f, page) ==
    [query |-> f.query, location |-> f.location,
     results_limit |-> f.results_per_page, page |-> PyInt(page),
     country |-> f.country, sort_by |-> f.sort_by,
     salary_min |-> f.salary_min, salary_max |-> f.salary_max,
     category |-> f.category, distance |-> f.distance]

\* _fetch_with_page(page): [jobs, desc_open, exc, reqs, entered].  A keyword
\* fetch_jobs does not declare makes the call itself raise TypeError, before
\* the function body runs.
FetchWithPage(page, f, old_jobs, old_open, sec, n) ==
    IF f = NoFilters
    THEN [jobs |-> old_jobs, desc_open |-> old_open, exc |-> "none",
          reqs |-> <<>>, entered |-> 0]
    ELSE IF ~(FetchWithPageKwargs \subseteq FetchJobsSignature)
    THEN [jobs |-> old_jobs, desc_open |-> old_open, exc |-> "TypeError",
          reqs |-> <<>>, entered |-> 0]
    ELSE LET c == FetchJobsCall(ArgsFromFilters(f, page), sec, n)
         IN  IF c.out.kind = "raise"
             THEN [jobs |-> old_jobs, desc_open |-> old_open, exc |-> c.out.exc,
                   reqs |-> c.reqs, entered |-> 1]
             ELSE [jobs |-> c.out.val, desc_open |-> {}, exc |-> "none",
                   reqs |-> c.reqs, entered |-> 1]

----------------------------------------------------------------------------
(* src/app.py: job_remote_label and split_description *)

DefaultLimit == 1200

\* The one character U+2026 that split_description appends
Ellipsis == "<U+2026>"

\* re.sub(r"\s+", " ", text): every maximal whitespace run becomes one space
CollapseWs(cs) ==
    LET marked == [k \in 1..Len(cs) |->
                      IF cs[k] \notin Whitespace THEN [c |-> cs[k], keep |-> TRUE]
                      ELSE [c |-> " ", keep |-> k = 1 \/ cs[k - 1] \notin Whitespace]]
        Kept(m) == m.keep
        runs == SelectSeq(marked, Kept)
    IN  [k \in 1..Len(runs) |-> runs[k].c]

\* s[k + 1:]
SliceFromNext(cs, k) == SubSeq(cs, k + 2, Len(cs))

\* s[:k] and s[k:] for k >= 0
SliceTo(cs, k) == SubSeq(cs, 1, Min(k, Len(cs)))
SliceFrom(cs, k) == SubSeq(cs, k + 1, Len(cs))

\* raw.rfind(" ", 0, end + 1)
RFindSpaceInclusive(cs, end) ==
    LET at == {k \in 0..(Min(end + 1, Len(cs)) - 1) : cs[k + 1] = " "}
    IN  IF at = {} THEN 0 - 1 ELSE CHOOSE k \in at : \A j \in at : j <= k

\* raw.rfind(" ", 0, end): the highest 0-based index below end that holds a
\* space, or -1
RFindSpace(cs, end) ==
    LET at == {k \in 0..(Min(end, Len(cs)) - 1) : cs[k + 1] = " "}
    IN  IF at = {} THEN 0 - 1 ELSE CHOOSE k \in at : \A j \in at : j <= k

\* raw = re.sub(r"\s+", " ", text).strip()   (line 178)
RawOf(t) == RStrip(LStrip(CollapseWs(t)))

\* the cut of lines 181-183
CutOf(raw, lim) ==
    LET found == RFindSpace(raw, lim)
    IN  IF found = 0 - 1 THEN lim ELSE found

\* split_description(text, limit): [called, preview, remainder]
\* len(raw) < limit
FitsStrictly(raw, lim) == Len(raw) < lim

\* len(raw) <= limit
Fits(raw, lim) == Len(raw) <= lim

SplitDescription(t, lim) ==
    IF t = <<>> THEN [called |-> TRUE, preview |-> <<>>, remainder |-> <<>>]
    ELSE LET raw == RawOf(t)
         IN  IF Fits(raw, lim)
             THEN [called |-> TRUE, preview |-> raw, remainder |-> <<>>]
             ELSE [called |-> TRUE,
                   preview |-> RStrip(SliceTo(raw, CutOf(raw, lim))) \o <<Ellipsis>>,
                   remainder |-> LStrip(SliceFrom(raw, CutOf(raw, lim)))]

NotSplit == [called |-> FALSE, preview |-> <<>>, remainder |-> <<>>]

\* k in s, for two strings given as character sequences
Contains(k, cs) ==
    \E at \in 0..(Len(cs) - Len(k)) : SubSeq(cs, at + 1, at + Len(k)) = k

RemoteKeywords ==
    { <<"r","e","m","o","t","e">>,
      <<"w","o","r","k"," ","f","r","o","m"," ","h","o","m","e">>,
      <<"w","f","h">>,
      <<"h","y","b","r","i","d">> }

\* job.get("remote"): True, False, 1 or absent
RemoteFlags == {"True", "False", "1", "None"}

\* v == True, which 1 satisfies as well
EqualsTrue(v) == v \in {"True", "1"}

\* v is True
IsTrue(v) == v = "True"

RemoteLabel == "Remote"
RemoteOrHybridLabel == "Remote / Hybrid"
OnSiteLabel == "On-site"

\* job_remote_label(job)
JobRemoteLabel(j) ==
    IF IsTrue(j.remote) THEN RemoteLabel
    ELSE LET desc == StrLower(Or(j.description, EmptyStr)).s
             title == StrLower(Or(j.title, EmptyStr)).s
         IN  IF \E k \in RemoteKeywords : Contains(k, desc) \/ Contains(k, title)
             THEN RemoteOrHybridLabel
             ELSE OnSiteLabel

----------------------------------------------------------------------------
(* Bounds and input sets *)

MaxCalls == 2        \* fetch_jobs calls per run
MaxOver == 2         \* how far integer inputs range outside the clamp ranges
MaxUiPage == 3       \* Next clicks are followed up to this page
MaxTextLen == 5      \* longest description drawn from TextAlphabet
MaxLimit == 4        \* largest character budget tried on those descriptions

Abc == PyStr(<<"a","b","c">>)
Seven == PyStr(<<"7">>)
PaddedTwelve == PyStr(<<" ","1","2"," ">>)
MinusThree == PyStr(<<"-","3">>)
OneE2 == PyStr(<<"1","e","2">>)
Blank == PyStr(<<" "," ">>)
PaddedDev == PyStr(<<" ","d","e","v"," ">>)
PaddedNY == PyStr(<<"N","Y"," ">>)
UpperGB == PyStr(<<"G","B">>)
TitleDate == PyStr(<<"D","a","t","e">>)
Salary == PyStr(<<"s","a","l","a","r","y">>)
ItJobs == PyStr(<<"i","t","-","j","o","b","s">>)
AnId == PyStr(<<"i","d">>)
AKey == PyStr(<<"k","e","y">>)
DataAnalyst == PyStr(<<"D","a","t","a"," ","A","n","a","l","y","s","t">>)
Texas == PyStr(<<"T","e","x","a","s">>)

\* the defaults of fetch_jobs' signature (lines 32-41)
DefaultArgs ==
    [query |-> PyStr(<<"d","a","t","a"," ","a","n","a","l","y","s","t">>),
     location |-> Texas, results_limit |-> PyInt(DefaultResults),
     page |-> PyInt(DefaultPage), country |-> DefaultCountry,
     sort_by |-> Relevance, salary_min |-> None_, salary_max |-> None_,
     category |-> None_, distance |-> None_]

BothSecrets == [ADZUNA_APP_ID |-> AnId, ADZUNA_APP_KEY |-> AKey]
SecretValues == {None_, EmptyStr}
AllSecrets ==
    [ADZUNA_APP_ID : SecretValues \cup {AnId},
     ADZUNA_APP_KEY : SecretValues \cup {AKey}]

NonNumeric == {Abc, OneE2, Blank}
NumericStrs == {Seven, PaddedTwelve, MinusThree}
PageValues ==
    {None_, EmptyStr} \cup NonNumeric \cup NumericStrs
    \cup {PyInt(k) : k \in (PageLo - 1 - MaxOver)..(PageHi + MaxOver)}
ResultsValues ==
    {None_, EmptyStr} \cup NonNumeric \cup NumericStrs
    \cup {PyInt(k) : k \in (ResultsLo - 1 - MaxOver)..(ResultsHi + MaxOver)}

Job1 == JStr(<<"j","1">>)
Job2 == JStr(<<"j","2">>)

TextBody == [kind |-> "text", top |-> "none", has_results |-> FALSE, results |-> JNull]
ObjectBody(has, v) == [kind |-> "json", top |-> "object", has_results |-> has, results |-> v]
OtherJson(top) == [kind |-> "json", top |-> top, has_results |-> FALSE, results |-> JNull]

Bodies ==
    {TextBody, ObjectBody(FALSE, JNull), ObjectBody(TRUE, JNull),
     ObjectBody(TRUE, EmptyList), ObjectBody(TRUE, JArr(<<Job1>>)),
     ObjectBody(TRUE, JArr(<<Job1, Job2>>)), ObjectBody(TRUE, JStr(<<"x">>)),
     ObjectBody(TRUE, JNum(5)), ObjectBody(TRUE, JNum(0)),
     OtherJson("array"), OtherJson("number"), OtherJson("string"),
     OtherJson("null")}

Statuses == {101, 200, 201, 204, 300, 304, 400, 404, 429, 500, 503}

Answer(status, body) == [fault |-> "none", status |-> status, body |-> body]
Fault(f) == [fault |-> f, status |-> 0, body |-> TextBody]

Nets ==
    {Fault("Timeout"), Fault("ConnectionError")}
    \cup {Answer(st, b) : st \in Statuses, b \in Bodies}

GoodNet == Answer(StatusOk, ObjectBody(TRUE, JArr(<<Job1, Job2>>)))

NotCalled == [kind |-> "none", exc |-> "none", url |-> NoUrl, params |-> EmptyDict]
NotFetched == [kind |-> "none", exc |-> "none", val |-> JNull]

DefaultWidgets ==
    [query |-> DataAnalyst, location |-> Texas, country_name |-> "United_States",
     results_per_page |-> PyInt(10), sort_by |-> Relevance,
     salary_min |-> PyInt(0), salary_max |-> PyInt(0), category |-> EmptyStr,
     distance |-> PyInt(0), remote_filter |-> "Any", experience_level |-> "Any"]

\* lines 234-238
InitSession ==
    /\ filters = NoFilters
    /\ jobs = EmptyList
    /\ current_page = 1
    /\ desc_open = {}
    /\ clicked = "none"
    /\ ui_exc = "none"

\* the text functions, not called
InitText ==
    /\ text = <<>>
    /\ limit = DefaultLimit
    /\ split = NotSplit
    /\ resplit = NotSplit
    /\ job = [remote |-> "None", description |-> None_, title |-> None_]
    /\ label = "none"

InitCalls ==
    /\ built = NotCalled
    /\ fetched = NotFetched
    /\ sent = <<>>
    /\ calls = 0

----------------------------------------------------------------------------
(* Actions *)

\* A caller invokes build_request(**args)
CallBuildRequest ==
    /\ built' = BuildRequest(args, secrets)
    /\ UNCHANGED <<secrets, args, net, fetched, sent, calls>>
    /\ UNCHANGED uiVars
    /\ UNCHANGED textVars

\* A caller invokes fetch_jobs(**args); the network answers as net says
CallFetchJobs ==
    /\ calls < MaxCalls
    /\ LET c == FetchJobsCall(args, secrets, net)
       IN  /\ fetched' = c.out
           /\ sent' = sent \o c.reqs
    /\ calls' = calls + 1
    /\ UNCHANGED <<secrets, args, net, built>>
    /\ UNCHANGED uiVars
    /\ UNCHANGED textVars

\* `if not jobs: st.stop()` (lines 330-332) ends the script before the
\* pagination buttons; an exception ends it where it is raised.
PaginationShown == ui_exc = "none" /\ JTruthy(jobs)

CanClick(click) ==
    CASE click = "prev" -> PaginationShown /\ current_page > 1
      [] click = "next" -> PaginationShown /\ current_page < MaxUiPage
      [] OTHER -> TRUE

\* One run of the Streamlit script, started by a click on Search Jobs, Previous
\* or Next, or by any other widget interaction ("none").
ScriptRun ==
    \E click \in {"none", "search", "prev", "next"} :
        /\ CanClick(click)
        /\ click # "none" => calls < MaxCalls
        /\ LET f == IF click = "search" THEN FiltersFromWidgets(widgets) ELSE filters
               page == CASE click = "search" -> 1
                         [] click = "prev" -> Max(1, current_page - 1)
                         [] click = "next" -> current_page + 1
                         [] OTHER -> current_page
               r == IF click = "none"
                    THEN [jobs |-> jobs, desc_open |-> desc_open, exc |-> "none",
                          reqs |-> <<>>, entered |-> 0]
                    ELSE FetchWithPage(page, f, jobs, desc_open, secrets, net)
           IN  /\ filters' = f
               /\ current_page' = page
               /\ jobs' = r.jobs
               /\ desc_open' = r.desc_open
               /\ ui_exc' = r.exc
               /\ sent' = sent \o r.reqs
               /\ calls' = calls + r.entered
        /\ clicked' = click
        /\ UNCHANGED <<secrets, args, net, built, fetched, widgets>>
        /\ UNCHANGED textVars

\* A caller invokes split_description(text, limit)
CallSplitDescription ==
    /\ split' = SplitDescription(text, limit)
    /\ UNCHANGED <<text, limit, resplit, job, label>>
    /\ UNCHANGED apiVars
    /\ UNCHANGED uiVars

\* A caller splits the preview it was given again, with the same limit
CallSplitPreview ==
    /\ split.called
    /\ resplit' = SplitDescription(split.preview, limit)
    /\ UNCHANGED <<text, limit, split, job, label>>
    /\ UNCHANGED apiVars
    /\ UNCHANGED uiVars

\* A job card is rendered: job_remote_label(job)
CallJobRemoteLabel ==
    /\ label' = JobRemoteLabel(job)
    /\ UNCHANGED <<text, limit, split, resplit, job>>
    /\ UNCHANGED apiVars
    /\ UNCHANGED uiVars

NextApi == CallBuildRequest \/ CallFetchJobs
NextLabel == CallJobRemoteLabel
NextSplit == CallSplitDescription \/ CallSplitPreview
NextUi == ScriptRun

----------------------------------------------------------------------------
(* Specifications: one next-state relation per layer, one Init per input family *)

\* Search client: every secret combination against every network behaviour
Init ==
    /\ secrets \in AllSecrets
    /\ args \in {DefaultArgs, [DefaultArgs EXCEPT !.page = PyInt(3)]}
    /\ net \in Nets
    /\ widgets = DefaultWidgets
    /\ InitCalls
    /\ InitSession
    /\ InitText

Next == NextApi

Spec == Init /\ [][Next]_vars

\* Clamping: every page and results_limit input
InitClamp ==
    /\ secrets = BothSecrets
    /\ args \in {[DefaultArgs EXCEPT !.page = p, !.results_limit = r] :
                    p \in PageValues, r \in ResultsValues}
    /\ net = GoodNet
    /\ widgets = DefaultWidgets
    /\ InitCalls
    /\ InitSession
    /\ InitText

SpecClamp == InitClamp /\ [][NextApi]_vars

\* Filters: the optional and text arguments
InitFilters ==
    /\ secrets \in {BothSecrets, [BothSecrets EXCEPT !.ADZUNA_APP_KEY = None_],
                    [BothSecrets EXCEPT !.ADZUNA_APP_ID = EmptyStr],
                    [ADZUNA_APP_ID |-> None_, ADZUNA_APP_KEY |-> EmptyStr]}
    /\ args \in [query : {None_, Blank, PaddedDev},
                 location : {EmptyStr, PaddedNY},
                 results_limit : {None_, PyInt(99)},
                 page : {PyInt(250), Abc},
                 country : {None_, UpperGB},
                 sort_by : {None_, Date, TitleDate},
                 salary_min : {None_, PyInt(0), PyInt(50000), PyInt(0 - 1)},
                 salary_max : {None_, PyInt(0), PyInt(90000)},
                 category : {None_, EmptyStr, ItJobs},
                 distance : {None_, PyInt(0), PyInt(5)}]
    /\ net = GoodNet
    /\ widgets = DefaultWidgets
    /\ InitCalls
    /\ InitSession
    /\ InitText

SpecFilters == InitFilters /\ [][NextApi]_vars

UpperRelevance == PyStr(<<"R","E","L","E","V","A","N","C","E">>)
PaddedDate == PyStr(<<"d","a","t","e"," ">>)
SortValues ==
    {None_, EmptyStr, Relevance, Date, TitleDate, UpperRelevance, PaddedDate,
     Salary, PyInt(1), PyInt(0)}

\* Sort order: every kind of sort_by value
InitSort ==
    /\ secrets \in {BothSecrets, [BothSecrets EXCEPT !.ADZUNA_APP_KEY = None_]}
    /\ args \in {[DefaultArgs EXCEPT !.sort_by = sb, !.page = p, !.query = q,
                                     !.category = c] :
                    sb \in SortValues, p \in {PyInt(3), None_, Abc},
                    q \in {None_, PaddedDev}, c \in {None_, ItJobs}}
    /\ net \in {GoodNet, Fault("Timeout")}
    /\ widgets = DefaultWidgets
    /\ InitCalls
    /\ InitSession
    /\ InitText

SpecSort == InitSort /\ [][NextApi]_vars

\* The interactive session
InitUi ==
    /\ secrets \in {BothSecrets, [BothSecrets EXCEPT !.ADZUNA_APP_KEY = None_]}
    /\ args = DefaultArgs
    /\ net \in {GoodNet, Fault("Timeout"), Answer(500, TextBody)}
    /\ widgets \in [query : {DataAnalyst, EmptyStr},
                    location : {Texas},
                    country_name : {"United_States", "India"},
                    results_per_page : {PyInt(10), PyInt(50)},
                    sort_by : {Relevance, Date},
                    salary_min : {PyInt(0), PyInt(50000)},
                    salary_max : {PyInt(0), PyInt(90000)},
                    category : {EmptyStr, ItJobs},
                    distance : {PyInt(0), PyInt(5)},
                    remote_filter : {"Any", "Remote only", "On-site only"},
                    experience_level : {"Any"}]
    /\ InitCalls
    /\ InitSession
    /\ InitText

SpecUi == InitUi /\ [][NextUi]_vars

TextAlphabet == {"a", "b", " ", "\n"}
Texts == UNION {[1..n -> TextAlphabet] : n \in 0..MaxTextLen}
LongText == [k \in 1..2000 |-> "a"]

\* Descriptions: every short text over TextAlphabet against every small
\* budget, and the 2000-character text against the default budget
InitSplit ==
    /\ secrets = BothSecrets
    /\ args = DefaultArgs
    /\ net = GoodNet
    /\ widgets = DefaultWidgets
    /\ InitCalls
    /\ InitSession
    /\ \/ text \in Texts /\ limit \in 0..MaxLimit
       \/ text = LongText /\ limit = DefaultLimit
    /\ split = NotSplit
    /\ resplit = NotSplit
    /\ job = [remote |-> "None", description |-> None_, title |-> None_]
    /\ label = "none"

SpecSplit == InitSplit /\ [][NextSplit]_vars

HybridTitle == PyStr(<<"B","a","c","k","e","n","d"," ","E","n","g","i","n","e","e","r"," ","(","H","y","b","r","i","d",")">>)
StoreAssociate == PyStr(<<"S","t","o","r","e"," ","A","s","s","o","c","i","a","t","e">>)
HomeWorker == PyStr(<<"A","g","e","n","t",","," ","W","o","r","k"," ","F","r","o","m"," ","H","o","m","e">>)
Fh == PyStr(<<"f","h">>)
Mote == PyStr(<<"m","o","t","e">>)
W == PyStr(<<"w">>)
Re == PyStr(<<"r","e">>)
FullyRemote == PyStr(<<"F","u","l","l","y"," ","R","E","M","O","T","E"," ","r","o","l","e">>)
Warehouse == PyStr(<<"D","a","y"," ","s","h","i","f","t"," ","i","n"," ","t","h","e"," ","w","a","r","e","h","o","u","s","e">>)
WfhOk == PyStr(<<"W","F","H"," ","o","k">>)

Titles == {None_, EmptyStr, HybridTitle, StoreAssociate, HomeWorker, Fh, Mote}
Descriptions == {None_, EmptyStr, W, Re, FullyRemote, Warehouse, WfhOk}

\* Job cards: every flag with every description and title above
InitLabel ==
    /\ secrets = BothSecrets
    /\ args = DefaultArgs
    /\ net = GoodNet
    /\ widgets = DefaultWidgets
    /\ InitCalls
    /\ InitSession
    /\ text = <<>>
    /\ limit = DefaultLimit
    /\ split = NotSplit
    /\ resplit = NotSplit
    /\ job \in [remote : RemoteFlags, description : Descriptions, title : Titles]
    /\ label = "none"

SpecLabel == InitLabel /\ [][NextLabel]_vars

----------------------------------------------------------------------------
(* Properties *)

\* The page number a request URL carries, read back from its text
UrlPage(url) == IntOf(PyStr(url.page)).i

HasBothCredentials ==
    /\ secrets.ADZUNA_APP_ID \notin {None_, EmptyStr}
    /\ secrets.ADZUNA_APP_KEY \notin {None_, EmptyStr}

IntegerInputs == args.page.t = "int" /\ args.results_limit.t = "int"

\* The (url, params) pairs produced so far: build_request's return value and
\* the GETs that fetch_jobs issued
Produced ==
    {[url |-> sent[k].url, params |-> sent[k].params] : k \in 1..Len(sent)}
    \cup (IF built.kind = "return"
          THEN {[url |-> built.url, params |-> built.params]} ELSE {})

\* C1: for every integer page and results_limit (negative, zero, in range,
\* above range) build_request returns and fetch_jobs sends a request, and in
\* every request built the results_per_page parameter lies in [1, 50] and the
\* page number in the URL lies in [1, 100].
C1_ClampedRanges ==
    /\ \A q \in Produced :
          /\ "results_per_page" \in DOMAIN q.params
          /\ q.params.results_per_page.t = "int"
          /\ q.params.results_per_page.i \in 1..50
          /\ UrlPage(q.url) \in 1..100
    /\ IntegerInputs /\ built # NotCalled => built.kind = "return"
    /\ IntegerInputs /\ calls > 0 => Len(sent) = calls

C1_Witness ==
    /\ args.page = PyInt(102)
    /\ args.results_limit = PyInt(0 - 2)
    /\ built.kind = "return"
    /\ UrlPage(built.url) = 100
    /\ built.params.results_per_page = PyInt(1)
    /\ Len(sent) = 1

\* page or results_limit is missing or is no number
Missing(v) == v \in {None_, EmptyStr}
NonNumericOrMissing(v) == Missing(v) \/ (v.t = "str" /\ ~IntOf(v).ok)

\* C2: when page or results_limit is non-numeric or missing, build_request and
\* fetch_jobs do not raise, and the request uses the default for that input:
\* page 1, results_per_page 10.
C2_NonNumericFailsSoft ==
    NonNumericOrMissing(args.page) \/ NonNumericOrMissing(args.results_limit) =>
        /\ built.kind # "raise"
        /\ fetched.kind # "raise"
        /\ \A q \in Produced :
              /\ NonNumericOrMissing(args.page) => UrlPage(q.url) = 1
              /\ NonNumericOrMissing(args.results_limit) =>
                    q.params.results_per_page = PyInt(10)

\* C3: with both credentials present, a GET that times out and a GET answered
\* with HTTP 500 both make fetch_jobs return the empty list; no exception
\* reaches the caller.
C3_TimeoutAnd500YieldEmpty ==
    /\ HasBothCredentials
    /\ calls > 0
    /\ net.fault = "Timeout" \/ (net.fault = "none" /\ net.status = 500)
    => /\ fetched = Returns(EmptyList)
       /\ Len(sent) = calls

C3_Witness ==
    /\ HasBothCredentials
    /\ net = Answer(500, ObjectBody(TRUE, JArr(<<Job1, Job2>>)))
    /\ Len(sent) = 1
    /\ fetched = Returns(EmptyList)

\* A body that is not JSON, or JSON that is no object carrying a results array
Malformed(body) ==
    \/ body.kind = "text"
    \/ body.top # "object"
    \/ body.has_results /\ body.results.jt # "array"

\* C4: for every malformed body on a successful (2xx) status, fetch_jobs
\* returns the empty list, as for a timeout, and propagates no exception.
C4_MalformedBodyYieldsEmpty ==
    /\ HasBothCredentials
    /\ calls > 0
    /\ net.fault = "none"
    /\ net.status \in 200..299
    /\ Malformed(net.body)
    => fetched = Returns(EmptyList)

\* C5: for every response whose status is outside 2xx, whatever its body,
\* fetch_jobs returns the empty list.
C5_NonSuccessYieldsEmpty ==
    /\ HasBothCredentials
    /\ calls > 0
    /\ net.fault = "none"
    /\ net.status \notin 200..299
    => fetched = Returns(EmptyList)

\* C6: if either credential is absent or empty, fetch_jobs returns the empty
\* list and issues no HTTP request, whatever the filter arguments.
C6_NoCredentialsNoRequest ==
    ~HasBothCredentials /\ calls > 0 =>
        /\ fetched = Returns(EmptyList)
        /\ sent = <<>>

C6_Witness ==
    /\ secrets.ADZUNA_APP_ID = AnId
    /\ secrets.ADZUNA_APP_KEY = None_
    /\ args.page = Abc
    /\ args.salary_min = PyInt(50000)
    /\ calls = 2
    /\ fetched = Returns(EmptyList)

\* C7: every Search Jobs, Next or Previous action taken while filters are
\* stored completes without an exception reaching the script and leaves
\* session_state.jobs equal to the list fetch_jobs returns for the stored
\* filters and the requested page.
C7_FetchReplacesJobs ==
    clicked \in {"search", "prev", "next"} /\ filters # NoFilters =>
        /\ ui_exc = "none"
        /\ jobs = FetchJobsCall(ArgsFromFilters(filters, current_page),
                                secrets, net).out.val

\* C8: with both credentials present, build_request issues no GET, and its
\* outcome is the one fetch_jobs reaches before its GET: the same (url, params)
\* pair, or the same exception with no GET; repeated calls of either give the
\* same url and params.
C8_BuildMatchesFetch ==
    /\ [](HasBothCredentials =>
            /\ calls = 0 => sent = <<>>
            /\ \A k \in 1..Len(sent) :
                  sent[k].url = sent[1].url /\ sent[k].params = sent[1].params
            /\ built # NotCalled /\ calls > 0 =>
                  IF built.kind = "return"
                  THEN /\ Len(sent) = calls
                       /\ \A k \in 1..Len(sent) :
                             sent[k].url = built.url /\ sent[k].params = built.params
                  ELSE /\ sent = <<>>
                       /\ fetched.kind = "raise"
                       /\ fetched.exc = built.exc)
    /\ [][built # NotCalled => built' = built]_vars

C8_Witness ==
    /\ HasBothCredentials
    /\ args.country = UpperGB
    /\ args.query = PaddedDev
    /\ args.salary_min = PyInt(50000)
    /\ built.kind = "return"
    /\ Len(sent) = 2
    /\ sent[2].url = built.url
    /\ built.url.country = <<"g", "b">>

\* C9: when either credential is missing, build_request reports a
\* "credentials unavailable" condition instead of returning an ordinary
\* (url, params) pair.
C9_BuilderReportsMissingCredentials ==
    ~HasBothCredentials /\ built # NotCalled => built.kind # "return"

OptionalInts == {"salary_min", "salary_max", "distance"}

\* C10: in every request built, salary_min, salary_max and distance are present
\* exactly when the filter is given and non-zero, and then carry that integer;
\* category is present exactly when it is a non-empty string, and carries it;
\* no parameter has the value None, "" or 0.
C10_OptionalFilters ==
    \A q \in Produced :
        /\ \A k \in OptionalInts :
              /\ k \in DOMAIN q.params <=> (args[k].t = "int" /\ args[k].i # 0)
              /\ k \in DOMAIN q.params => q.params[k] = PyInt(args[k].i)
        /\ "category" \in DOMAIN q.params <=>
              (args.category.t = "str" /\ args.category.s # <<>>)
        /\ "category" \in DOMAIN q.params => q.params.category = args.category
        /\ \A k \in DOMAIN q.params :
              q.params[k] \notin {None_, EmptyStr, PyInt(0)}

C10_Witness ==
    /\ args.salary_min = PyInt(50000)
    /\ args.salary_max = PyInt(90000)
    /\ args.distance = PyInt(0)
    /\ args.category = EmptyStr
    /\ built.kind = "return"
    /\ built.params.salary_min = PyInt(50000)
    /\ built.params.salary_max = PyInt(90000)
    /\ DOMAIN built.params \cap {"distance", "category"} = {}
    /\ Len(sent) = 1

\* C11: in every request built, the sort_by parameter is present; it is the
\* given value when that is "relevance" or "date", and "relevance" for every
\* other value (None, "", another spelling or case, another type).
C11_SortByDefaultsToRelevance ==
    \A q \in Produced :
        /\ "sort_by" \in DOMAIN q.params
        /\ args.sort_by = PyStr(<<"d","a","t","e">>) =>
              q.params.sort_by = PyStr(<<"d","a","t","e">>)
        /\ args.sort_by # PyStr(<<"d","a","t","e">>) =>
              q.params.sort_by = PyStr(<<"r","e","l","e","v","a","n","c","e">>)

C11_Witness ==
    /\ args.sort_by = TitleDate
    /\ built.kind = "return"
    /\ built.params.sort_by = Relevance
    /\ Len(sent) = 1
    /\ sent[1].params.sort_by = Relevance

\* the characters of cs that are not whitespace, in order
NonSpace(c) == c \notin Whitespace
Letters(cs) == SelectSeq(cs, NonSpace)

\* raw is text with every whitespace run collapsed to one space and trimmed:
\* the same letters in the same order and as many words, single spaces only,
\* none at either end
IsCollapsed(t, raw) ==
    /\ Letters(raw) = Letters(t)
    /\ \A k \in 1..Len(raw) : raw[k] \in Whitespace => raw[k] = " "
    /\ \A k \in 1..(Len(raw) - 1) : ~(raw[k] = " " /\ raw[k + 1] = " ")
    /\ raw # <<>> => raw[1] # " " /\ raw[Len(raw)] # " "
    /\ Cardinality({k \in 1..Len(raw) : raw[k] = " "}) =
          Cardinality({k \in 2..Len(t) :
                          /\ t[k] \in Whitespace
                          /\ t[k - 1] \notin Whitespace
                          /\ \E j \in (k + 1)..Len(t) : t[j] \notin Whitespace})

\* the spaces among the first lim characters of raw, as 1-based positions
SpacesWithin(raw, lim) == {k \in 1..Min(lim, Len(raw)) : raw[k] = " "}
LastOf(S) == CHOOSE k \in S : \A j \in S : j <= k

\* C12: split_description first collapses whitespace runs to single spaces
\* (and trims); a collapsed text of at most limit characters is returned whole
\* with an empty remainder; otherwise the preview is the text before the last
\* space among the first limit characters, or the first limit characters when
\* there is no such space, with the ellipsis appended.  A text of n > limit
\* characters with no space gives limit characters plus the ellipsis and a
\* remainder of n - limit characters (2000 and 1200: 1200 and 800).
C12_SplitAtLastSpaceOrLimit ==
    split.called =>
        LET raw == RawOf(text)
            within == SpacesWithin(raw, limit)
            before == IF within = {} THEN limit ELSE LastOf(within) - 1
        IN  /\ IsCollapsed(text, raw)
            /\ Len(raw) <= limit => split.preview = raw /\ split.remainder = <<>>
            /\ Len(raw) > limit =>
                  split.preview = SubSeq(raw, 1, before) \o <<Ellipsis>>
            /\ Len(text) > limit /\ Letters(text) = text =>
                  /\ Len(split.preview) = limit + 1
                  /\ SubSeq(split.preview, 1, limit) = SubSeq(text, 1, limit)
                  /\ Len(split.remainder) = Len(text) - limit
            /\ Len(text) = 2000 /\ limit = 1200 =>
                  Len(split.preview) = 1201 /\ Len(split.remainder) = 800

C12_Witness ==
    /\ text = <<"a", " ", "b", " ", "a">>
    /\ limit = 3
    /\ split.called
    /\ split.preview = <<"a", Ellipsis>>

\* the split fell on the hard limit: the collapsed text is over the budget and
\* has no space among its first limit characters
HardCut == Len(RawOf(text)) > limit /\ SpacesWithin(RawOf(text), limit) = {}

\* C13 as stated: splitting the preview again, ellipsis included, with the
\* same limit gives the same preview and an empty remainder.
C13_ResplitIdempotent ==
    resplit.called =>
        /\ resplit.preview = split.preview
        /\ resplit.remainder = <<>>

\* C13 amended: splitting the preview again with the same limit gives the
\* same preview; the remainder is empty unless the first split fell on the
\* hard limit, and then it is the ellipsis alone.
C13_ResplitKeepsPreview ==
    resplit.called =>
        /\ resplit.preview = split.preview
        /\ ~HardCut => resplit.remainder = <<>>
        /\ HardCut => resplit.remainder = <<Ellipsis>>

C13_Witness ==
    /\ text = <<"a", "a", "a", "a", "a">>
    /\ limit = 3
    /\ split.preview = <<"a", "a", "a", Ellipsis>>
    /\ resplit.called
    /\ resplit.preview = <<"a", "a", "a", Ellipsis>>
    /\ resplit.remainder = <<Ellipsis>>

\* the preview without its trailing ellipsis
Body(preview) ==
    IF preview # <<>> /\ preview[Len(preview)] = Ellipsis
    THEN SubSeq(preview, 1, Len(preview) - 1)
    ELSE preview

Lowered(v) == IF v.t = "str" THEN StrLower(v).s ELSE <<>>
Mentions(cs) ==
    \/ Contains(<<"r","e","m","o","t","e">>, cs)
    \/ Contains(<<"w","o","r","k"," ","f","r","o","m"," ","h","o","m","e">>, cs)
    \/ Contains(<<"w","f","h">>, cs)
    \/ Contains(<<"h","y","b","r","i","d">>, cs)

\* C14 as stated: the Remote label when the explicit remote flag is true;
\* otherwise Remote / Hybrid exactly when the lower-cased concatenation of
\* description and title contains a keyword, and On-site in every other case.
C14_LabelByConcatenation ==
    label # "none" =>
        /\ job.remote = "True" => label = "Remote"
        /\ job.remote # "True" =>
              label = IF Mentions(Lowered(job.description) \o Lowered(job.title))
                      THEN "Remote / Hybrid"
                      ELSE "On-site"

\* C14 amended: the Remote label when the explicit remote flag is true;
\* otherwise Remote / Hybrid exactly when the lower-cased description
\* contains a keyword or the lower-cased title contains a keyword, and
\* On-site in every other case; "Backend Engineer (Hybrid)" gives
\* Remote / Hybrid and "Store Associate" with nothing else gives On-site.
C14_LabelByEitherField ==
    label # "none" =>
        /\ job.remote = "True" => label = "Remote"
        /\ job.remote # "True" =>
              label = IF \/ Mentions(Lowered(job.description))
                         \/ Mentions(Lowered(job.title))
                      THEN "Remote / Hybrid"
                      ELSE "On-site"
        /\ job.remote = "None" /\ job.title.s = <<"B","a","c","k","e","n","d"," ",
               "E","n","g","i","n","e","e","r"," ","(","H","y","b","r","i","d",")">> =>
              label = "Remote / Hybrid"
        /\ /\ job.remote = "None"
           /\ job.description = None_
           /\ job.title = StoreAssociate
           => label = "On-site"

C14_Witness ==
    /\ job.remote = "None"
    /\ job.description = W
    /\ job.title = Fh
    /\ label = "On-site"

\* C15: each call of fetch_jobs issues at most one GET: there are never more
\* requests than calls, a step sends at most one request and only as part of
\* a fetch_jobs call, whether the request fails (transport error, timeout,
\* error status, undecodable body) or not; a later request needs a later call.
C15_OneGetPerCall ==
    /\ [](Len(sent) <= calls)
    /\ [][/\ Len(sent') <= Len(sent) + 1
          /\ Len(sent') > Len(sent) => calls' = calls + 1]_vars

C15_Witness ==
    /\ net.fault = "Timeout"
    /\ calls = 2
    /\ Len(sent) = 2
    /\ fetched = Returns(EmptyList)

====
